---- MODULE Spec2Model ----
(***************************************************************************)
(* Model of the sleep-timer engine (src/legacy/src/timer.ts, class         *)
(* SleepTimer) together with the platform's interval timers and the two    *)
(* collaborators pauseMedia / suspendSystem that the expiry sequence       *)
(* awaits.                                                                 *)
(*                                                                         *)
(* The engine runs on one event loop, so every public method and every     *)
(* timer callback runs to its first `await` without interleaving: each is  *)
(* one action.  The asynchronous tail of expire() (after the await of      *)
(* pauseMedia, after the settle timeout, after the await of suspendSystem) *)
(* is one action per resumption.                                           *)
(*                                                                         *)
(* Tick source: `live` holds the interval ids the platform will keep       *)
(* firing.  `stale` holds ids that were cleared while one callback of      *)
(* theirs was already scheduled and that the platform still delivers once  *)
(* (the "cancellation race lost" case guarded by tick()'s first line).     *)
(***************************************************************************)
EXTENDS Integers, Sequences, FiniteSets, TLC

\* ---- bounds of the model ----
MaxStarts == 2        \* start() is called at most this many times
MaxHalfSeconds == 5   \* start(n/120 minutes) for n in 1..MaxHalfSeconds
MaxCallbacks == 2     \* onExpire() is called at most this many times
MaxNow == 2           \* the wall clock takes the values 1..MaxNow

\* the values a caller writes into a snapshot it holds
MutatedSeconds == {99}

\* startedAt: null (idle) is modelled as 0, timestamps are >= 1
Null == 0

VARIABLES
    state,              \* SleepTimer.state
    intervalId,         \* SleepTimer.intervalId (Null or an interval id)
    onExpireCallbacks,  \* SleepTimer.onExpireCallbacks: behaviour of each callback
    live,               \* platform: intervals set and not cleared
    stale,              \* platform: cleared intervals with one callback still to be delivered
    nextId,             \* platform: number of setInterval calls so far
    now,                \* Date.now()
    pipes,              \* one record per expire() call: its asynchronous pipeline
    held,               \* caller: <<>> or <<[obj, val]>>, a returned snapshot it kept
    ret,                \* what this step returned: <<snapshot>> for start/cancel/getState, else <<>>
    hist,               \* history: the last step taken and the run it belongs to
    request,            \* server: <<>> or <<body>>, the POST /api/start-timer last received
    ui                  \* browser: the page's variables

vars == <<state, intervalId, onExpireCallbacks, live, stale, nextId, now, pipes, held, ret, hist,
         request, ui>>

\* ---- inputs ----
\* minutes is the rational n/d, kept as the pair <<n, d>>
MinuteInputs == {<<n, 120>> : n \in 1..MaxHalfSeconds}
CallbackKinds == {"returns", "throws"}

\* ---- pure helpers ----

\* mutant: rounds up instead of down
TotalSecondsOf_Ceil(minutes) == (minutes[1] * 60 + minutes[2] - 1) \div minutes[2]

\* Math.floor(minutes * 60)
TotalSecondsOf(minutes) == (minutes[1] * 60) \div minutes[2]

\* the state object literal of the field initialiser and of cancel()
IdleState ==
    [isRunning |-> FALSE, remainingSeconds |-> 0, totalSeconds |-> 0, startedAt |-> Null]

\* mutant: the countdown is started one second too high
StartState_OffByOne(totalSeconds, t) ==
    [isRunning |-> TRUE, remainingSeconds |-> totalSeconds + 1,
     totalSeconds |-> totalSeconds, startedAt |-> t]

\* the state object literal of start()
StartState(totalSeconds, t) ==
    [isRunning |-> TRUE, remainingSeconds |-> totalSeconds,
     totalSeconds |-> totalSeconds, startedAt |-> t]

\* getState(): { ...this.state }
Snapshot(s) ==
    [isRunning |-> s.isRunning, remainingSeconds |-> s.remainingSeconds,
     totalSeconds |-> s.totalSeconds, startedAt |-> s.startedAt]

\* mutant: getState returns this.state itself
SnapshotObject_Alias == "engine"

\* getState(): the object literal { ... } is a new object, not the one
\* this.state refers to ("engine")
SnapshotObject == "own"

\* this.state = { ... } in start() and cancel(): this.state refers to a new
\* object; a reference to the old one keeps the old object with its value
HeldAfterAssign(h) == [i \in 1..Len(h) |-> [h[i] EXCEPT !.obj = "own"]]

\* this.state.remainingSeconds-- and the writes of expire() change the object
\* this.state refers to in place, for every holder of that object
HeldAfterWrite(h, s) ==
    [i \in 1..Len(h) |-> IF h[i].obj = "engine" THEN [h[i] EXCEPT !.val = s] ELSE h[i]]

\* mutant: the test is inverted
Truthy_Inverted(id) == id = Null

\* `if (this.intervalId)`: null is falsy, every interval id is truthy
Truthy(id) == id # Null

\* mutant: the interval is not stopped
ClearLive_Noop(l, id) == l

\* clearInterval(id): the platform stops the interval; `pending` says whether
\* a callback of it was already scheduled and is still delivered
ClearLive(l, id) == l \ {id}

ClearStale(st, id, pending) == IF pending THEN st \cup {id} ELSE st

\* mutant: tick() without its isRunning guard
TickActs_NoGuard(s) == TRUE

\* tick(): `if (!this.state.isRunning) return;`
TickActs(s) == s.isRunning

\* mutant: tick() does not count down
Decremented_Stuck(s) == s

\* mutant: tick() decrements totalSeconds as well
Decremented_Both(s) ==
    [s EXCEPT !.remainingSeconds = @ - 1, !.totalSeconds = @ - 1]

\* tick(): this.state.remainingSeconds--
Decremented(s) == [s EXCEPT !.remainingSeconds = @ - 1]

\* mutant: the test is `=== 0`
ExpireDue_OnlyAtZero(s) == s.remainingSeconds = 0

\* mutant: expiry one second early
ExpireDue_Early(s) == s.remainingSeconds <= 1

\* mutant: expiry only when remainingSeconds is below zero
ExpireDue_Late(s) == s.remainingSeconds < 0

\* tick(): `if (this.state.remainingSeconds <= 0)`
ExpireDue(s) == s.remainingSeconds <= 0

\* mutant: expire() assigns the idle literal
ExpiredState_ResetsAll(s) ==
    [isRunning |-> FALSE, remainingSeconds |-> 0, totalSeconds |-> 0, startedAt |-> 0]

\* mutant: expire() forgets to clamp remainingSeconds
ExpiredState_NoClamp(s) == [s EXCEPT !.isRunning = FALSE]

\* expire(): isRunning = false; remainingSeconds = 0 (the other fields are kept)
ExpiredState(s) == [s EXCEPT !.isRunning = FALSE, !.remainingSeconds = 0]

\* mutant: no try/catch around the callback
TryCallback_NoCatch(cb) == IF cb = "throws" THEN "propagated" ELSE "returned"

\* expire(): try { callback() } catch (e) { console.error(...) }
TryCallback(cb) == IF cb = "throws" THEN "caught" ELSE "returned"

\* expire(): for (const callback of this.onExpireCallbacks) { ... }
\* result: the outcome of every callback that was invoked, in order, and
\* whether the loop was left by an exception
RECURSIVE CallbackLoop(_, _, _)
CallbackLoop(cbs, i, acc) ==
    IF i > Len(cbs) THEN [outcomes |-> acc, aborted |-> FALSE]
    ELSE LET r == TryCallback(cbs[i]) IN
         IF r = "propagated"
         THEN [outcomes |-> Append(acc, r), aborted |-> TRUE]
         ELSE CallbackLoop(cbs, i + 1, Append(acc, r))

\* the pipeline of one expire() call, at its first await
\*   pc: "pause" awaiting pauseMedia, "settle" awaiting the 1000 ms timeout,
\*       "suspend" awaiting suspendSystem, "done", "rejected" (exception left expire)
\*   callbacksBeforePause: how many callbacks had been invoked when the loop
\*       ended and pauseMedia() was called
NewPipe(run, loop) ==
    [run |-> run,
     outcomes |-> loop.outcomes,
     callbacksBeforePause |-> Len(loop.outcomes),
     pc |-> IF loop.aborted THEN "rejected" ELSE "pause",
     pauseCalls |-> IF loop.aborted THEN 0 ELSE 1,
     pauseResult |-> "none",
     suspendCalls |-> 0,
     suspendResult |-> "none",
     pauseDoneAtSuspend |-> FALSE]

NoMinutes == <<0, 1>>

\* history of a behaviour:
\*   op, minutes   the step just taken and the argument of start
\*   phase         "started" from a start() until the next cancel(), "cancelled"
\*                 from a cancel() until the next start(), "idle" before both
\*   started, k    while phase = "started": the snapshot start() returned and the
\*                 number of tick() calls since (not counted beyond totalSeconds + 1)
\*   pre           for start and cancel: the situation the call was made in
\*                 ("unticked": running and no tick since start, "running",
\*                 "cancelled": right after a cancel(), "idle"); "" otherwise
\*   tickStale     the tick just taken came from a cleared interval
\*   expired       the tick just taken ran expire()
Hist(op, minutes, phase, k, started, tickStale, expired) ==
    [op |-> op, minutes |-> minutes, phase |-> phase, k |-> k,
     started |-> started, tickStale |-> tickStale, expired |-> expired,
     pre |-> CASE op = "start" ->
                    IF state.isRunning /\ hist.phase = "started" /\ hist.k = 0 THEN "unticked"
                    ELSE IF state.isRunning THEN "running" ELSE "idle"
               [] op = "cancel" ->
                    IF hist.op = "cancel" THEN "cancelled"
                    ELSE IF state.isRunning THEN "running" ELSE "idle"
               [] OTHER -> ""]

\* ---- the HTTP handler and the page: values ----

\* a request body is <<>> (no minutes field) or <<q>> with q the minutes as a pair
\* <<numerator, denominator>>
RequestBodies ==
    {<<>>, <<<<0, 1>>>>, <<<<-1, 1>>>>, <<<<1, 120>>>>, <<<<1, 60>>>>, <<<<1, 1>>>>, <<<<481, 1>>>>}

\* body.minutes || 30
MinutesOrDefault(body) ==
    IF body = <<>> \/ body[1][1] = 0 THEN <<30, 1>> ELSE body[1]

\* minutes <= 0 || minutes > 480
Rejected(minutes) == minutes[1] <= 0 \/ minutes[1] > 480 * minutes[2]

\* the 400 response of POST /api/start-timer
BadRequest == [status |-> 400, error |-> "Duration must be between 1 and 480 minutes"]

\* what the user can have entered or selected as minutes when pressing start
UiMinuteInputs == {0, 1, 481}

\* !minutes || minutes < 1 || minutes > 480 is false
UiValid(minutes) == ~(minutes = 0 \/ minutes < 1 \/ minutes > 480)

\* the page's variables when the script has loaded: isRunning = false,
\* pollInterval = null, youtubePlayer = null; initialised is set when init()'s
\* status fetch has returned; pauseSent tells that the last step of the page
\* posted the pauseVideo command to the player
PageLoaded ==
    [isRunning |-> FALSE, pollInterval |-> FALSE, youtubePlayer |-> FALSE,
     initialised |-> FALSE, pauseSent |-> FALSE]

\* pauseVideo(): the command is posted when a player is loaded
PauseVideo(u) == u.youtubePlayer

\* updateUI(state): wasRunning = isRunning; isRunning = state.isRunning; in the
\* not-running branch, wasRunning && state.remainingSeconds === 0 calls pauseVideo()
UpdateUI(u, s) ==
    LET wasRunning == u.isRunning
    IN [u EXCEPT !.isRunning = s.isRunning,
                 !.pauseSent = IF ~s.isRunning /\ wasRunning /\ s.remainingSeconds = 0
                               THEN PauseVideo(u) ELSE FALSE]

\* ---- initial state: after `new SleepTimer()` ----
Init ==
    /\ state = IdleState
    /\ intervalId = Null
    /\ onExpireCallbacks = <<>>
    /\ live = {}
    /\ stale = {}
    /\ nextId = 0
    /\ now = 1
    /\ pipes = <<>>
    /\ held = <<>>
    /\ ret = <<>>
    /\ request = <<>>
    /\ ui = PageLoaded
    /\ hist = [op |-> "init", minutes |-> NoMinutes, phase |-> "idle", k |-> 0,
               started |-> IdleState, tickStale |-> FALSE, expired |-> FALSE, pre |-> ""]

\* ---- public methods ----

\* mutant: start() is refused while an expiry pipeline is in flight
Start_WaitsForPipeline(minutes, pending) ==
    /\ nextId < MaxStarts
    /\ \A e \in 1..Len(pipes) : pipes[e].pc \in {"done", "rejected"}
    /\ LET cleared == Truthy(intervalId)
           totalSeconds == TotalSecondsOf(minutes)
           new == StartState(totalSeconds, now)
           id == nextId + 1
       IN /\ (~cleared => ~pending)
          /\ state' = new
          /\ live' = (IF cleared THEN ClearLive(live, intervalId) ELSE live) \cup {id}
          /\ stale' = IF cleared THEN ClearStale(stale, intervalId, pending) ELSE stale
          /\ intervalId' = id
          /\ nextId' = id
          /\ ret' = <<Snapshot(new)>>
          /\ hist' = Hist("start", minutes, "started", 0, Snapshot(new), FALSE, FALSE)
    /\ held' = HeldAfterAssign(held)
    /\ UNCHANGED <<onExpireCallbacks, now, pipes, request, ui>>

\* start(minutes)
Start(minutes, pending) ==
    /\ nextId < MaxStarts
    /\ LET cleared == Truthy(intervalId)
           totalSeconds == TotalSecondsOf(minutes)
           new == StartState(totalSeconds, now)
           id == nextId + 1
       IN /\ (~cleared => ~pending)
          /\ state' = new
          /\ live' = (IF cleared THEN ClearLive(live, intervalId) ELSE live) \cup {id}
          /\ stale' = IF cleared THEN ClearStale(stale, intervalId, pending) ELSE stale
          /\ intervalId' = id
          /\ nextId' = id
          /\ ret' = <<Snapshot(new)>>
          /\ hist' = Hist("start", minutes, "started", 0, Snapshot(new), FALSE, FALSE)
    /\ held' = HeldAfterAssign(held)
    /\ UNCHANGED <<onExpireCallbacks, now, pipes, request, ui>>

\* mutant: cancel() stops the countdown but does not reset the other fields
Cancel_OnlyStops(pending) ==
    /\ LET cleared == Truthy(intervalId)
       IN /\ (~cleared => ~pending)
          /\ live' = IF cleared THEN ClearLive(live, intervalId) ELSE live
          /\ stale' = IF cleared THEN ClearStale(stale, intervalId, pending) ELSE stale
          /\ intervalId' = IF cleared THEN Null ELSE intervalId
    /\ state' = [state EXCEPT !.isRunning = FALSE]
    /\ ret' = <<Snapshot(state')>>
    /\ hist' = Hist("cancel", NoMinutes, "cancelled", 0, IdleState, FALSE, FALSE)
    /\ held' = HeldAfterAssign(held)
    /\ UNCHANGED <<onExpireCallbacks, nextId, now, pipes, request, ui>>

\* mutant: cancel() also abandons the expiry pipelines still in flight
Cancel_AbortsPipelines(pending) ==
    /\ LET cleared == Truthy(intervalId)
       IN /\ (~cleared => ~pending)
          /\ live' = IF cleared THEN ClearLive(live, intervalId) ELSE live
          /\ stale' = IF cleared THEN ClearStale(stale, intervalId, pending) ELSE stale
          /\ intervalId' = IF cleared THEN Null ELSE intervalId
    /\ state' = IdleState
    /\ pipes' = [e \in 1..Len(pipes) |->
                    IF pipes[e].pc \in {"pause", "settle"}
                    THEN [pipes[e] EXCEPT !.pc = "rejected"] ELSE pipes[e]]
    /\ ret' = <<Snapshot(IdleState)>>
    /\ hist' = Hist("cancel", NoMinutes, "cancelled", 0, IdleState, FALSE, FALSE)
    /\ held' = HeldAfterAssign(held)
    /\ UNCHANGED <<onExpireCallbacks, nextId, now, request, ui>>

\* cancel()
Cancel(pending) ==
    /\ LET cleared == Truthy(intervalId)
       IN /\ (~cleared => ~pending)
          /\ live' = IF cleared THEN ClearLive(live, intervalId) ELSE live
          /\ stale' = IF cleared THEN ClearStale(stale, intervalId, pending) ELSE stale
          /\ intervalId' = IF cleared THEN Null ELSE intervalId
    /\ state' = IdleState
    /\ ret' = <<Snapshot(IdleState)>>
    /\ hist' = Hist("cancel", NoMinutes, "cancelled", 0, IdleState, FALSE, FALSE)
    /\ held' = HeldAfterAssign(held)
    /\ UNCHANGED <<onExpireCallbacks, nextId, now, pipes, request, ui>>

\* getState()
GetState ==
    /\ ret' = <<Snapshot(state)>>
    /\ hist' = Hist("getState", NoMinutes, hist.phase, hist.k, hist.started, FALSE, FALSE)
    /\ UNCHANGED <<state, intervalId, onExpireCallbacks, live, stale, nextId, now, pipes, held, request, ui>>

\* mutant: the callback is put in front of the list
OnExpire_Unshift(cb) ==
    /\ Len(onExpireCallbacks) < MaxCallbacks
    /\ onExpireCallbacks' = <<cb>> \o onExpireCallbacks
    /\ hist' = Hist("onExpire", NoMinutes, hist.phase, hist.k, hist.started, FALSE, FALSE)
    /\ ret' = <<>>
    /\ UNCHANGED <<state, intervalId, live, stale, nextId, now, pipes, held, request, ui>>

\* onExpire(callback)
OnExpire(cb) ==
    /\ Len(onExpireCallbacks) < MaxCallbacks
    /\ onExpireCallbacks' = Append(onExpireCallbacks, cb)
    /\ hist' = Hist("onExpire", NoMinutes, hist.phase, hist.k, hist.started, FALSE, FALSE)
    /\ ret' = <<>>
    /\ UNCHANGED <<state, intervalId, live, stale, nextId, now, pipes, held, request, ui>>

\* ---- timer callbacks ----

\* the interval callback () => this.tick(), with the synchronous part of
\* expire() (up to `await pauseMedia()`) when the countdown reaches zero
Tick(id, pending) ==
    /\ id \in live \cup stale
    /\ LET isStale == id \notin live
           stale1 == stale \ {id}
           k1 == IF hist.phase = "started" /\ hist.k <= hist.started.totalSeconds
                 THEN hist.k + 1 ELSE hist.k
       IN IF ~TickActs(state)
          THEN /\ ~pending
               /\ stale' = stale1
               /\ hist' = Hist("tick", NoMinutes, hist.phase, k1, hist.started, isStale, FALSE)
               /\ UNCHANGED <<state, intervalId, live, pipes>>
          ELSE LET dec == Decremented(state) IN
               IF ~ExpireDue(dec)
               THEN /\ ~pending
                    /\ state' = dec
                    /\ stale' = stale1
                    /\ hist' = Hist("tick", NoMinutes, hist.phase, k1, hist.started, isStale, FALSE)
                    /\ UNCHANGED <<intervalId, live, pipes>>
               ELSE \* expire()
                    LET cleared == Truthy(intervalId)
                        exp == ExpiredState(dec)
                        loop == CallbackLoop(onExpireCallbacks, 1, <<>>)
                    IN /\ (pending => cleared /\ intervalId # id)
                       /\ live' = IF cleared THEN ClearLive(live, intervalId) ELSE live
                       /\ stale' = IF cleared THEN ClearStale(stale1, intervalId, pending) ELSE stale1
                       /\ intervalId' = IF cleared THEN Null ELSE intervalId
                       /\ state' = exp
                       /\ pipes' = Append(pipes, NewPipe(nextId, loop))
                       /\ hist' = Hist("tick", NoMinutes, hist.phase, k1, hist.started, isStale, TRUE)
    /\ held' = HeldAfterWrite(held, state')
    /\ ret' = <<>>
    /\ UNCHANGED <<onExpireCallbacks, nextId, now, request, ui>>

\* ---- the asynchronous tail of expire() ----

\* mutant: a failed pause is tried again
PauseReturns_Retries(e, success) ==
    /\ e \in 1..Len(pipes)
    /\ pipes[e].pc = "pause"
    /\ pipes' = IF success \/ pipes[e].pauseCalls > 1
                THEN [pipes EXCEPT ![e].pc = "settle",
                                   ![e].pauseResult = IF success THEN "success" ELSE "failure"]
                ELSE [pipes EXCEPT ![e].pauseCalls = @ + 1]
    /\ hist' = Hist("pauseReturns", NoMinutes, hist.phase, hist.k, hist.started, FALSE, FALSE)
    /\ ret' = <<>>
    /\ UNCHANGED <<state, intervalId, onExpireCallbacks, live, stale, nextId, now, held, request, ui>>

\* pauseMedia() resolves; expire() logs the message and starts the settle timeout
PauseReturns(e, success) ==
    /\ e \in 1..Len(pipes)
    /\ pipes[e].pc = "pause"
    /\ pipes' = [pipes EXCEPT ![e].pc = "settle",
                              ![e].pauseResult = IF success THEN "success" ELSE "failure"]
    /\ hist' = Hist("pauseReturns", NoMinutes, hist.phase, hist.k, hist.started, FALSE, FALSE)
    /\ ret' = <<>>
    /\ UNCHANGED <<state, intervalId, onExpireCallbacks, live, stale, nextId, now, held, request, ui>>

\* the settle timeout fires; expire() calls suspendSystem()
SettleElapsed(e) ==
    /\ e \in 1..Len(pipes)
    /\ pipes[e].pc = "settle"
    /\ pipes' = [pipes EXCEPT ![e].pc = "suspend",
                              ![e].suspendCalls = @ + 1,
                              ![e].pauseDoneAtSuspend = (pipes[e].pauseResult # "none")]
    /\ hist' = Hist("settleElapsed", NoMinutes, hist.phase, hist.k, hist.started, FALSE, FALSE)
    /\ ret' = <<>>
    /\ UNCHANGED <<state, intervalId, onExpireCallbacks, live, stale, nextId, now, held, request, ui>>

\* mutant: the end of the pipeline resets the engine to idle
SuspendReturns_Resets(e, success) ==
    /\ e \in 1..Len(pipes)
    /\ pipes[e].pc = "suspend"
    /\ pipes' = [pipes EXCEPT ![e].pc = "done",
                              ![e].suspendResult = IF success THEN "success" ELSE "failure"]
    /\ state' = IdleState
    /\ hist' = Hist("suspendReturns", NoMinutes, hist.phase, hist.k, hist.started, FALSE, FALSE)
    /\ ret' = <<>>
    /\ held' = HeldAfterAssign(held)
    /\ UNCHANGED <<intervalId, onExpireCallbacks, live, stale, nextId, now, request, ui>>

\* suspendSystem() resolves; expire() logs the message and ends
SuspendReturns(e, success) ==
    /\ e \in 1..Len(pipes)
    /\ pipes[e].pc = "suspend"
    /\ pipes' = [pipes EXCEPT ![e].pc = "done",
                              ![e].suspendResult = IF success THEN "success" ELSE "failure"]
    /\ hist' = Hist("suspendReturns", NoMinutes, hist.phase, hist.k, hist.started, FALSE, FALSE)
    /\ ret' = <<>>
    /\ UNCHANGED <<state, intervalId, onExpireCallbacks, live, stale, nextId, now, held, request, ui>>

\* ---- environment ----

\* wall-clock time passes
Advance ==
    /\ now < MaxNow
    /\ now' = now + 1
    /\ hist' = Hist("advance", NoMinutes, hist.phase, hist.k, hist.started, FALSE, FALSE)
    /\ ret' = <<>>
    /\ UNCHANGED <<state, intervalId, onExpireCallbacks, live, stale, nextId, pipes, held, request, ui>>

\* ---- a caller that keeps a returned snapshot ----

\* the caller keeps the object start(), cancel() or getState() just returned
Hold ==
    /\ ret # <<>>
    /\ held = <<>>
    /\ held' = <<[obj |-> SnapshotObject, val |-> ret[1]]>>
    /\ hist' = Hist("hold", NoMinutes, hist.phase, hist.k, hist.started, FALSE, FALSE)
    /\ ret' = <<>>
    /\ UNCHANGED <<state, intervalId, onExpireCallbacks, live, stale, nextId, now, pipes, request, ui>>

\* the caller writes a field of the object it kept (TimerState fields are
\* writable); the write reaches the engine only if it is the engine's object
MutateHeld(secs) ==
    /\ held # <<>>
    /\ held[1].val.remainingSeconds # secs
    /\ LET v == [held[1].val EXCEPT !.remainingSeconds = secs]
       IN /\ held' = <<[held[1] EXCEPT !.val = v]>>
          /\ state' = IF held[1].obj = "engine" THEN v ELSE state
    /\ hist' = Hist("mutate", NoMinutes, hist.phase, hist.k, hist.started, FALSE, FALSE)
    /\ ret' = <<>>
    /\ UNCHANGED <<intervalId, onExpireCallbacks, live, stale, nextId, now, pipes, request, ui>>

Next ==
    \/ \E m \in MinuteInputs, p \in BOOLEAN : Start(m, p)
    \/ \E p \in BOOLEAN : Cancel(p)
    \/ GetState
    \/ \E cb \in CallbackKinds : OnExpire(cb)
    \/ \E id \in 1..MaxStarts, p \in BOOLEAN : Tick(id, p)
    \/ \E e \in 1..MaxStarts, ok \in BOOLEAN : PauseReturns(e, ok)
    \/ \E e \in 1..MaxStarts : SettleElapsed(e)
    \/ \E e \in 1..MaxStarts, ok \in BOOLEAN : SuspendReturns(e, ok)
    \/ Advance

Spec == Init /\ [][Next]_vars

\* the engine with a caller that keeps and changes one returned snapshot
NextWithHolder == Next \/ Hold \/ \E secs \in MutatedSeconds : MutateHeld(secs)

HolderSpec == Init /\ [][NextWithHolder]_vars

\* the live interval keeps firing while it is set
TickLive == \E id \in live, p \in BOOLEAN : Tick(id, p)

\* a step of some expire() pipeline: a collaborator returns or the settle
\* timeout fires
PipeStep(e) ==
    \/ \E ok \in BOOLEAN : PauseReturns(e, ok)
    \/ SettleElapsed(e)
    \/ \E ok \in BOOLEAN : SuspendReturns(e, ok)

\* the event loop runs every due timer and every resolved await
FairSpec ==
    /\ Init /\ [][Next]_vars
    /\ WF_vars(TickLive)
    /\ \A e \in 1..MaxStarts : WF_vars(PipeStep(e))

\* ---- the HTTP handler (handleApi) ----

\* POST /api/start-timer arrives: the handler runs up to `await request.json()`
ReceiveStartTimer(body) ==
    /\ nextId < MaxStarts
    /\ request' = <<body>>
    /\ hist' = Hist("request", NoMinutes, hist.phase, hist.k, hist.started, FALSE, FALSE)
    /\ ret' = <<>>
    /\ UNCHANGED <<state, intervalId, onExpireCallbacks, live, stale, nextId, now, pipes, held, ui>>

\* the handler resumes with the parsed body: default, range check, then the 400
\* response or timer.start(minutes) and its snapshot as the response
HandleStartTimer(pending) ==
    /\ hist.op = "request"
    /\ LET minutes == MinutesOrDefault(request[1])
       IN IF Rejected(minutes)
          THEN /\ ~pending
               /\ ret' = <<BadRequest>>
               /\ hist' = Hist("badRequest", minutes, hist.phase, hist.k, hist.started, FALSE, FALSE)
               /\ UNCHANGED <<state, intervalId, onExpireCallbacks, live, stale, nextId, now,
                              pipes, held, request, ui>>
          ELSE Start(minutes, pending)

\* the timer behind its HTTP interface: GET /api/status is getState(), POST
\* /api/cancel-timer is cancel(); nothing registers an expiry callback
NextApi ==
    \/ \E body \in RequestBodies : ReceiveStartTimer(body)
    \/ \E p \in BOOLEAN : HandleStartTimer(p)
    \/ \E p \in BOOLEAN : Cancel(p)
    \/ GetState
    \/ \E id \in 1..MaxStarts, p \in BOOLEAN : Tick(id, p)
    \/ \E e \in 1..MaxStarts, ok \in BOOLEAN : PauseReturns(e, ok)
    \/ \E e \in 1..MaxStarts : SettleElapsed(e)
    \/ \E e \in 1..MaxStarts, ok \in BOOLEAN : SuspendReturns(e, ok)
    \/ Advance

ApiSpec == Init /\ [][NextApi]_vars

\* ---- the page (app.js) ----

\* startTimer(), with the start button shown: the minutes pass the page's own
\* check and the request is sent
UiStartTimer(minutes) ==
    /\ ~ui.isRunning
    /\ UiValid(minutes)
    /\ ReceiveStartTimer(<<<<minutes, 1>>>>)

\* cancelTimer(), with the cancel button shown: POST /api/cancel-timer is sent
\* and handled by cancel()
UiCancelTimer(pending) ==
    /\ ui.isRunning
    /\ Cancel(pending)

\* fetchStatus(): sent by init() and then by the poll interval while it is set
UiFetchStatus ==
    /\ ui.pollInterval \/ ~ui.initialised
    /\ GetState

\* the response of the request just handled reaches the page: startTimer() calls
\* updateUI and startPolling, cancelTimer() updateUI and stopPolling,
\* fetchStatus() updateUI, and init() starts polling if the timer is running
UiResponse ==
    /\ ret # <<>>
    /\ hist.op \in {"start", "cancel", "getState"}
    /\ LET u == UpdateUI(ui, ret[1])
       IN ui' = CASE hist.op = "start" -> [u EXCEPT !.pollInterval = TRUE]
                  [] hist.op = "cancel" -> [u EXCEPT !.pollInterval = FALSE]
                  [] OTHER -> [u EXCEPT !.initialised = TRUE,
                                        !.pollInterval = @ \/ (~ui.initialised /\ ret[1].isRunning)]
    /\ hist' = Hist("updateUI", NoMinutes, hist.phase, hist.k, hist.started, FALSE, FALSE)
    /\ ret' = <<>>
    /\ UNCHANGED <<state, intervalId, onExpireCallbacks, live, stale, nextId, now, pipes, held,
                   request>>

\* loadVideo(videoId) with a valid id: youtubePlayer = iframe
LoadVideo ==
    /\ ~ui.youtubePlayer
    /\ ui' = [ui EXCEPT !.youtubePlayer = TRUE, !.pauseSent = FALSE]
    /\ hist' = Hist("loadVideo", NoMinutes, hist.phase, hist.k, hist.started, FALSE, FALSE)
    /\ ret' = <<>>
    /\ UNCHANGED <<state, intervalId, onExpireCallbacks, live, stale, nextId, now, pipes, held,
                   request>>

\* closeVideo(): youtubePlayer = null
CloseVideo ==
    /\ ui.youtubePlayer
    /\ ui' = [ui EXCEPT !.youtubePlayer = FALSE, !.pauseSent = FALSE]
    /\ hist' = Hist("closeVideo", NoMinutes, hist.phase, hist.k, hist.started, FALSE, FALSE)
    /\ ret' = <<>>
    /\ UNCHANGED <<state, intervalId, onExpireCallbacks, live, stale, nextId, now, pipes, held,
                   request>>

\* the timer, its HTTP interface and one page as its only client
NextUi ==
    \/ \E m \in UiMinuteInputs : UiStartTimer(m)
    \/ \E p \in BOOLEAN : HandleStartTimer(p)
    \/ \E p \in BOOLEAN : UiCancelTimer(p)
    \/ UiFetchStatus
    \/ UiResponse
    \/ LoadVideo
    \/ CloseVideo
    \/ \E id \in 1..MaxStarts, p \in BOOLEAN : Tick(id, p)
    \/ \E e \in 1..MaxStarts, ok \in BOOLEAN : PauseReturns(e, ok)
    \/ \E e \in 1..MaxStarts : SettleElapsed(e)
    \/ \E e \in 1..MaxStarts, ok \in BOOLEAN : SuspendReturns(e, ok)
    \/ Advance

UiSpec == Init /\ [][NextUi]_vars

\* ---- properties ----

\* minutes * 60 lies in [q, q + 1): q is the floor, stated without division
IsFloorOfSeconds(q, minutes) ==
    /\ q * minutes[2] <= minutes[1] * 60
    /\ minutes[1] * 60 < (q + 1) * minutes[2]

InFlight(p) == p.pc \in {"pause", "settle", "suspend"}

\* C1 (as stated): whenever isRunning is false, remainingSeconds = 0,
\* totalSeconds = 0 and startedAt is null.
C1_IdleIsCanonical ==
    ~state.isRunning =>
        /\ state.remainingSeconds = 0
        /\ state.totalSeconds = 0
        /\ state.startedAt = Null

\* C1 (amended): whenever isRunning is false, remainingSeconds = 0; totalSeconds
\* is 0 and startedAt is null unless the countdown ended by expiry, and then
\* both keep the values start() gave them until the next start() or cancel().
C1_IdleAfterExpiryKeepsRun ==
    ~state.isRunning =>
        /\ state.remainingSeconds = 0
        /\ IF hist.phase = "started"
           THEN /\ state.totalSeconds = hist.started.totalSeconds
                /\ state.startedAt = hist.started.startedAt
                /\ state.startedAt # Null
           ELSE /\ state.totalSeconds = 0
                /\ state.startedAt = Null

\* an expired countdown of at least one second, observed later
C1_Witness ==
    /\ ~state.isRunning
    /\ hist.phase = "started"
    /\ state.totalSeconds > 0
    /\ now > state.startedAt
    /\ hist.op = "getState"

\* C2: remainingSeconds <= totalSeconds in the engine's state between steps
\* and in every snapshot a public method returns.
C2_RemainingAtMostTotal ==
    /\ state.remainingSeconds <= state.totalSeconds
    /\ \A i \in 1..Len(ret) : ret[i].remainingSeconds <= ret[i].totalSeconds

\* getState observes a countdown that has ticked
C2_Witness ==
    /\ hist.op = "getState"
    /\ ret # <<>>
    /\ ret[1].isRunning
    /\ ret[1].remainingSeconds < ret[1].totalSeconds

\* C3: a tick never leaves a running countdown at remainingSeconds <= 0; the
\* tick that reaches 0 leaves isRunning = false and remainingSeconds = 0 and
\* calls pauseMedia; every expiry has exactly one pauseMedia call, at most one
\* suspendSystem call, made only after pauseMedia returned and the settle
\* delay elapsed, and exactly one once its pipeline is finished; no countdown
\* expires twice.
C3_ExpiryPipelineOnce ==
    /\ (hist.op = "tick" /\ state.isRunning) => state.remainingSeconds > 0
    /\ (hist.op = "tick" /\ hist.expired) =>
            /\ ~state.isRunning
            /\ state.remainingSeconds = 0
            /\ pipes # <<>>
            /\ pipes[Len(pipes)].pc = "pause"
    /\ \A e \in 1..Len(pipes) :
            /\ pipes[e].pauseCalls = 1
            /\ pipes[e].suspendCalls <= 1
            /\ (pipes[e].pc \in {"pause", "settle"}) => pipes[e].suspendCalls = 0
            /\ (pipes[e].pc \in {"suspend", "done"}) =>
                    /\ pipes[e].suspendCalls = 1
                    /\ pipes[e].pauseDoneAtSuspend
                    /\ pipes[e].pauseResult # "none"
            /\ \A f \in 1..Len(pipes) : pipes[e].run = pipes[f].run => e = f

\* a one-second countdown expired on its first tick and its pipeline finished
C3_Witness ==
    /\ hist.phase = "started"
    /\ hist.started.totalSeconds = 1
    /\ hist.k = 1
    /\ \E e \in 1..Len(pipes) : pipes[e].run = nextId /\ pipes[e].pc = "done"

\* C4: right after start(minutes) the state is running with
\* remainingSeconds = totalSeconds = floor(minutes * 60) and startedAt = now,
\* and the returned snapshot equals the state.
C4_StartSemantics ==
    hist.op = "start" =>
        /\ state.isRunning
        /\ IsFloorOfSeconds(state.totalSeconds, hist.minutes)
        /\ state.remainingSeconds = state.totalSeconds
        /\ state.startedAt = now
        /\ ret = <<state>>

\* start() over a countdown that had already ticked, at a later time, with a
\* duration that is not a whole number of seconds
C4_Witness ==
    /\ hist.op = "start"
    /\ hist.pre = "running"
    /\ hist.minutes = <<3, 120>>
    /\ now > 1

\* C5: at most one interval is live; right after start() exactly one is, the
\* one the engine holds, and the state is that of this call only.
C5_OneTickSource ==
    /\ Cardinality(live) <= 1
    /\ hist.op = "start" =>
            /\ live = {intervalId}
            /\ IsFloorOfSeconds(state.totalSeconds, hist.minutes)
            /\ state.remainingSeconds = state.totalSeconds

\* start(a) then start(b) with no tick in between
C5_Witness ==
    /\ hist.op = "start"
    /\ hist.pre = "unticked"
    /\ nextId = 2
    /\ state.totalSeconds = 2

\* C6: a cancel() step leaves the idle literal as state, returns it, leaves no
\* interval live and none held, and makes no collaborator call.
C6_CancelResets ==
    [][hist'.op = "cancel" =>
            /\ state' = IdleState
            /\ ret' = <<IdleState>>
            /\ live' = {}
            /\ intervalId' = Null
            /\ pipes' = pipes]_vars

\* cancel() right after cancel(), with a pipeline still in flight
C6_Witness ==
    /\ hist.op = "cancel"
    /\ hist.pre = "cancelled"
    /\ \E e \in 1..Len(pipes) : InFlight(pipes[e])

\* C7: start() during an in-flight pipeline gives the fresh running state, and
\* no later step of a pipeline changes the engine's state.
C7_StalePipelineFrame ==
    [][/\ (hist'.op = "start" /\ \E e \in 1..Len(pipes) : InFlight(pipes[e])) =>
            /\ state'.isRunning
            /\ state'.remainingSeconds = state'.totalSeconds
            /\ state'.startedAt = now
       /\ (hist'.op \in {"pauseReturns", "settleElapsed", "suspendReturns"}) =>
            state' = state]_vars

\* the pipeline of the first countdown finished while the second was running
C7_Witness ==
    /\ hist.op = "suspendReturns"
    /\ state.isRunning
    /\ nextId = 2
    /\ \E e \in 1..Len(pipes) : pipes[e].run = 1 /\ pipes[e].pc = "done"

\* C8: at expiry every registered callback is invoked, whatever the earlier
\* ones did, and pauseMedia is called; no expire() is left by an exception,
\* so its pipeline goes on to suspendSystem.
C8_CallbackIsolation ==
    /\ (hist.op = "tick" /\ hist.expired) =>
            Len(pipes[Len(pipes)].outcomes) = Len(onExpireCallbacks)
    /\ \A e \in 1..Len(pipes) :
            /\ pipes[e].pc # "rejected"
            /\ pipes[e].pauseCalls = 1
            /\ pipes[e].pc = "done" => pipes[e].suspendCalls = 1

\* the first callback threw, the second ran, and suspendSystem was called
C8_Witness ==
    \E e \in 1..Len(pipes) :
        /\ Len(pipes[e].outcomes) = 2
        /\ pipes[e].outcomes[1] = "caught"
        /\ pipes[e].outcomes[2] = "returned"
        /\ pipes[e].suspendCalls = 1

\* C9: after start() with totalSeconds = T and k < T ticks, with no cancel()
\* since, the countdown is running with remainingSeconds = T - k and the
\* totalSeconds and startedAt of the start.
C9_TickFrame ==
    (hist.phase = "started" /\ hist.k < hist.started.totalSeconds) =>
        /\ state.isRunning
        /\ state.remainingSeconds = hist.started.totalSeconds - hist.k
        /\ state.totalSeconds = hist.started.totalSeconds
        /\ state.startedAt = hist.started.startedAt

\* one tick into a two-second countdown, some time after it started
C9_Witness ==
    /\ hist.op = "tick"
    /\ hist.phase = "started"
    /\ hist.k = 1
    /\ hist.started.totalSeconds = 2
    /\ now > hist.started.startedAt

\* C10: a tick delivered after cancel() leaves the idle literal as state and
\* does not run expire().
C10_TickAfterCancelNoop ==
    [][(hist'.op = "tick" /\ hist'.phase = "cancelled") =>
            /\ state' = IdleState
            /\ state' = state
            /\ ~hist'.expired
            /\ pipes' = pipes]_vars

\* a callback of the cancelled interval was delivered after the cancel
C10_Witness ==
    /\ hist.op = "tick"
    /\ hist.tickStale
    /\ hist.phase = "cancelled"
    /\ state = IdleState

\* the outcome try/catch gives each callback of a registry, in order
ExpectedOutcomes(cbs) ==
    [i \in 1..Len(cbs) |-> IF cbs[i] = "throws" THEN "caught" ELSE "returned"]

\* C11: the registry only grows at its end; every expire() invokes each
\* callback registered so far once, in registration order, and has invoked
\* all of them when it calls pauseMedia.
C11_RegistryAppendOnly ==
    [][/\ Len(onExpireCallbacks') >= Len(onExpireCallbacks)
       /\ SubSeq(onExpireCallbacks', 1, Len(onExpireCallbacks)) = onExpireCallbacks
       /\ Len(pipes') > Len(pipes) =>
            LET p == pipes'[Len(pipes')] IN
            /\ p.outcomes = ExpectedOutcomes(onExpireCallbacks)
            /\ p.callbacksBeforePause = Len(onExpireCallbacks)
            /\ p.pauseCalls = 1]_vars

\* the second expiry ran both callbacks again, in order
C11_Witness ==
    /\ Len(pipes) = 2
    /\ hist.op = "tick" /\ hist.expired
    /\ pipes[1].outcomes = <<"caught", "returned">>
    /\ pipes[2].outcomes = <<"caught", "returned">>

\* C12: whatever pauseMedia and suspendSystem return, each is called at most
\* once per expiry, a failed pause still leads to the settle delay and to the
\* one suspendSystem call, and a failed suspend ends the pipeline.
C12_FailureNeitherAbortsNorRetries ==
    \A e \in 1..Len(pipes) :
        /\ pipes[e].pauseCalls <= 1
        /\ pipes[e].suspendCalls <= 1
        /\ pipes[e].pauseResult = "failure" =>
                /\ pipes[e].pc \in {"settle", "suspend", "done"}
                /\ (pipes[e].pc # "settle") => pipes[e].suspendCalls = 1
        /\ pipes[e].suspendResult = "failure" =>
                /\ pipes[e].pc = "done"
                /\ pipes[e].suspendCalls = 1

\* pause failed, suspend was called once all the same, and failed too
C12_Witness ==
    \E e \in 1..Len(pipes) :
        /\ pipes[e].pauseResult = "failure"
        /\ pipes[e].suspendResult = "failure"
        /\ pipes[e].pauseCalls = 1
        /\ pipes[e].suspendCalls = 1

\* C13: under FairSpec every expire() that began reaches its suspendSystem
\* call, whatever start() and cancel() calls come in between.
C13_ExpiryRunsToCompletion ==
    \A e \in 1..MaxStarts :
        (Len(pipes) >= e) ~> (Len(pipes) >= e /\ pipes[e].suspendCalls = 1)

\* cancel() was called during the settle delay and suspendSystem was still called
C13_Witness ==
    /\ hist.phase = "cancelled"
    /\ \E e \in 1..Len(pipes) : pipes[e].pc = "done" /\ pipes[e].suspendCalls = 1
    /\ hist.op = "suspendReturns"

\* countdown r ended by its own expire()
ExpiredRun(r) == \E e \in 1..Len(pipes) : pipes[e].run = r

\* suspendSystem was called for the expiry of countdown r
SuspendCalledFor(r) ==
    \E e \in 1..Len(pipes) : pipes[e].run = r /\ pipes[e].suspendCalls = 1

\* C14: in every state cancel() can be taken, and start(minutes) can be taken
\* for every input and gives a running countdown at its full duration with the
\* interval set, also while pipelines are in flight (start is capped by the
\* model's MaxStarts only).
C14_AlwaysRestartable ==
    /\ ENABLED Cancel(FALSE)
    /\ nextId < MaxStarts =>
            \A m \in MinuteInputs :
                ENABLED (/\ Start(m, FALSE)
                         /\ state'.isRunning
                         /\ state'.remainingSeconds = state'.totalSeconds
                         /\ live' = {intervalId'})

\* a pipeline is awaiting its settle delay and start() has not reached its cap
C14_Witness ==
    /\ nextId < MaxStarts
    /\ ~state.isRunning
    /\ \E e \in 1..Len(pipes) : pipes[e].pc = "settle"

\* C15 (as stated): after the expiry sequence of the current countdown has
\* run, getState returns the idle literal.
C15_ExpiryResetsToIdle ==
    (hist.op = "getState" /\ \E e \in 1..Len(pipes) :
                                pipes[e].run = nextId /\ pipes[e].pc = "done")
        => ret = <<IdleState>>

\* C15 (amended): after the expiry sequence of the current countdown has run
\* and no cancel() since, getState returns isRunning = false and
\* remainingSeconds = 0 with the totalSeconds and startedAt of the expired
\* countdown; after a cancel() it returns the idle literal.
C15_ExpiryStopsKeepsRun ==
    (hist.op = "getState" /\ \E e \in 1..Len(pipes) :
                                pipes[e].run = nextId /\ pipes[e].pc = "done")
        => IF hist.phase = "started"
           THEN ret = <<[isRunning |-> FALSE, remainingSeconds |-> 0,
                         totalSeconds |-> hist.started.totalSeconds,
                         startedAt |-> hist.started.startedAt]>>
           ELSE ret = <<IdleState>>

\* getState after the whole expiry sequence of a two-second countdown
C15_Witness ==
    /\ hist.op = "getState"
    /\ hist.phase = "started"
    /\ hist.started.totalSeconds = 2
    /\ \E e \in 1..Len(pipes) : pipes[e].run = nextId /\ pipes[e].pc = "done"

\* C16: a getState() step changes nothing of the engine; a snapshot a caller
\* keeps has the same field values after every step of the engine; a caller's
\* write to its snapshot changes nothing of the engine.
C16_SnapshotIsCopy ==
    [][/\ hist'.op = "getState" =>
            UNCHANGED <<state, intervalId, onExpireCallbacks, live, stale, nextId, pipes>>
       /\ (held # <<>> /\ hist'.op # "mutate") =>
            (held' # <<>> /\ held'[1].val = held[1].val)
       /\ hist'.op = "mutate" =>
            UNCHANGED <<state, intervalId, onExpireCallbacks, live, stale, nextId, pipes>>]_vars

\* the snapshot start() returned is still held, unchanged, after a tick of
\* the same countdown
C16_Witness ==
    /\ hist.op = "tick"
    /\ nextId = 1
    /\ held # <<>>
    /\ held[1].val.isRunning /\ state.isRunning
    /\ held[1].val.remainingSeconds = 2
    /\ state.remainingSeconds = 1

C18_TickSourceIffRunning ==
    /\ (live # {}) <=> state.isRunning
    /\ (intervalId # Null) <=> state.isRunning
    /\ state.isRunning => live = {intervalId}

\* the second countdown has expired and no interval is left
C18_Witness ==
    /\ hist.op = "tick" /\ hist.expired
    /\ nextId = 2
    /\ live = {}
    /\ ~state.isRunning

\* C19: start() and cancel() steps make no collaborator call and begin no
\* expiry; an expiry begins only in a tick that takes the running, current
\* countdown from remainingSeconds <= 1 to zero, one expiry at a time; so the
\* pause calls and the suspend calls never outnumber such ticks.
C19_OnlyTickedOutRunsExpire ==
    [][/\ (hist'.op \in {"start", "cancel"}) => pipes' = pipes
       /\ Len(pipes') > Len(pipes) =>
            /\ hist'.op = "tick"
            /\ state.isRunning
            /\ state.remainingSeconds - 1 <= 0
            /\ hist.phase = "started"
            /\ Len(pipes') = Len(pipes) + 1
            /\ pipes'[Len(pipes')].run = nextId
            /\ ~ExpiredRun(nextId)
       /\ \A e \in 1..Len(pipes') :
            pipes'[e].pauseCalls <= 1 /\ pipes'[e].suspendCalls <= 1]_vars

\* the first countdown was replaced after a tick and only the second expired
C19_Witness ==
    /\ nextId = 2
    /\ Len(pipes) = 1
    /\ pipes[1].run = 2
    /\ pipes[1].suspendCalls = 1
    /\ hist.started.totalSeconds = 1

\* C20: under FairSpec a running countdown r leads to the suspendSystem call
\* of its expiry, unless it is cancelled or replaced before it expires.
C20_CountdownExpiresAndSuspends ==
    \A r \in 1..MaxStarts :
        (nextId = r /\ state.isRunning) ~>
            \/ SuspendCalledFor(r)
            \/ (~ExpiredRun(r) /\ (nextId > r \/ hist.phase = "cancelled"))

\* a two-second countdown ran out undisturbed and suspendSystem was called
C20_Witness ==
    /\ nextId = 1
    /\ hist.phase = "started"
    /\ hist.started.totalSeconds = 2
    /\ hist.k = 2
    /\ SuspendCalledFor(1)

\* C23: remainingSeconds is never negative, in the engine's state between
\* steps and in every snapshot a public method returns, also for a start of
\* less than one second (totalSeconds = 0).
C23_RemainingNeverNegative ==
    /\ state.remainingSeconds >= 0
    /\ \A i \in 1..Len(ret) : ret[i].remainingSeconds >= 0

\* getState after the one tick of a countdown of less than a second
C23_Witness ==
    /\ hist.op = "getState"
    /\ hist.phase = "started"
    /\ hist.started.totalSeconds = 0
    /\ hist.k = 1
    /\ ret = <<[isRunning |-> FALSE, remainingSeconds |-> 0, totalSeconds |-> 0,
                startedAt |-> hist.started.startedAt]>>

\* the minutes of a request body lie between 1 and 480
InClaimedRange(q) == q[2] <= q[1] /\ q[1] <= 480 * q[2]

\* C21: a POST /api/start-timer whose minutes value is not between 1 and 480 is
\* answered with the 400 error and leaves the timer state and the tick source
\* unchanged, and timer.start is only called with a value between 1 and 480.
C21_ApiValidatesDuration ==
    [][(hist.op = "request" /\ hist'.op \in {"start", "badRequest"}) =>
          /\ (request[1] # <<>> /\ ~InClaimedRange(request[1][1])) =>
                /\ ret' = <<BadRequest>>
                /\ UNCHANGED <<state, intervalId, live, stale, nextId>>
          /\ hist'.op = "start" => InClaimedRange(hist'.minutes)]_vars

\* C22: the page posts the pause command to the video only when the countdown of
\* the run it showed has reached zero, never on the response to a cancel of a
\* running timer.
C22_PauseOnlyOnExpiry ==
    [][(hist'.op = "updateUI" /\ ui'.pauseSent) =>
          /\ ExpiredRun(nextId)
          /\ ~(hist.op = "cancel" /\ hist.pre = "running")]_vars

====
